---- MODULE Spec2Model ----
(***************************************************************************)
(* A model of src/flight_delay.py: the script that the dashboard reruns    *)
(* from top to bottom on every interaction (a file upload, a change of a   *)
(* sidebar widget).  The state is the uploaded table, the values the user  *)
(* gave the four sidebar widgets, and what the last run of the script      *)
(* computed and put on the page.                                           *)
(*                                                                         *)
(* Numbers of a pandas column are floats that may be NaN, dates are        *)
(* timestamps that may be NaT.  Both are records here, with a flag for the *)
(* missing value, so that the arithmetic and the comparisons of a missing  *)
(* value are written out as pandas defines them.  Means, quantiles and the *)
(* anomaly limit are exact fractions: a mean is numerator and denominator, *)
(* a quantile is kept times 4 and the limit times 8.                       *)
(*                                                                         *)
(* Of the columns, the model carries those whose values the script reads   *)
(* after the cleaning; Delay_per_100_miles (line 60) is read by nothing.   *)
(* The charts are entries of the page: what the chart library draws is not *)
(* in the source.                                                          *)
(***************************************************************************)
EXTENDS Integers, Sequences, FiniteSets, TLC

(***************************** bounds **************************************)
\* The longest uploaded table, in rows.
MaxRows == 2
\* The longest table of the quantile study (SpecAnomaly).
MaxDelays == 5
\* The longest table of the study of the derived columns (SpecEnrich).
MaxFlights == 1

(***************************** values **************************************)
NaN == [nan |-> TRUE, v |-> 0]
Num(n) == [nan |-> FALSE, v |-> n]
NaT == [nat |-> TRUE, y |-> 0, m |-> 0, d |-> 0]
Timestamp(y, m, d) == [nat |-> FALSE, y |-> y, m |-> m, d |-> d]

\* A cell of the uploaded CSV: text that reads as a number, an empty cell or
\* any other text.
IntCell(n) == [kind |-> "int", val |-> n]
EmptyCell == [kind |-> "empty", val |-> 0]
TextCell == [kind |-> "text", val |-> 0]
\* A cell of the Date column: three numbers separated by dashes, or empty.
DashCell(a, b, c) == [kind |-> "dash", a |-> a, b |-> b, c |-> c]
EmptyDate == [kind |-> "empty", a |-> 0, b |-> 0, c |-> 0]

\* pd.to_numeric(..., errors='coerce')
to_numeric(c) == IF c.kind = "int" THEN Num(c.val) ELSE NaN

IsLeap(y) == (y % 4 = 0 /\ y % 100 # 0) \/ y % 400 = 0
DaysInMonth(y, m) ==
  IF m = 2 THEN (IF IsLeap(y) THEN 29 ELSE 28)
  ELSE IF m \in {4, 6, 9, 11} THEN 30 ELSE 31

\* pd.to_datetime(..., format='%d-%m-%Y', errors='coerce'): the first number
\* is the day, the second the month; anything that is no date becomes NaT.
to_datetime(c) ==
  IF c.kind = "dash" /\ c.b \in 1..12 /\ c.a >= 1 /\ c.a <= DaysInMonth(c.c, c.b)
  THEN Timestamp(c.c, c.b, c.a)
  ELSE NaT

\* Series.fillna(0) on one value
fillna0(x) == IF x.nan THEN Num(0) ELSE x

\* float addition: NaN absorbs
Add(x, y) == IF x.nan \/ y.nan THEN NaN ELSE Num(x.v + y.v)

\* Timestamp comparison: any comparison with NaT is False
DateLE(a, b) ==
  /\ ~a.nat
  /\ ~b.nat
  /\ \/ a.y < b.y
     \/ a.y = b.y /\ a.m < b.m
     \/ a.y = b.y /\ a.m = b.m /\ a.d <= b.d

(***************************** the schema **********************************)
numeric_cols ==
  << "DepTime", "ArrTime", "CRSArrTime", "ActualElapsedTime", "CRSElapsedTime",
     "AirTime", "ArrDelay", "Distance", "TaxiIn", "TaxiOut",
     "CarrierDelay", "WeatherDelay", "NASDelay", "SecurityDelay",
     "LateAircraftDelay" >>

Range(s) == {s[i] : i \in 1..Len(s)}

AllColumns == {"Date", "Airline", "Origin", "Dest"} \cup Range(numeric_cols)

(***************************** cleaning ************************************)
\* Lines 36-43: the Date column to timestamps, the numeric columns to floats.
\* The model carries the numeric columns whose values the script reads later.
Coerce(r) ==
  [r EXCEPT !.Date = to_datetime(@),
            !.ArrDelay = to_numeric(@),
            !.Distance = to_numeric(@),
            !.CarrierDelay = to_numeric(@),
            !.WeatherDelay = to_numeric(@),
            !.NASDelay = to_numeric(@),
            !.SecurityDelay = to_numeric(@),
            !.LateAircraftDelay = to_numeric(@)]

\* FillNa with SecurityDelay left out of the dictionary.
FillNaSkipsSecurity(r) ==
  [r EXCEPT !.CarrierDelay = fillna0(@),
            !.WeatherDelay = fillna0(@),
            !.NASDelay = fillna0(@),
            !.LateAircraftDelay = fillna0(@),
            !.ArrDelay = fillna0(@)]

\* Lines 46-53: df.fillna({...: 0}) on the five delay columns and ArrDelay.
FillNa(r) ==
  [r EXCEPT !.CarrierDelay = fillna0(@),
            !.WeatherDelay = fillna0(@),
            !.NASDelay = fillna0(@),
            !.SecurityDelay = fillna0(@),
            !.LateAircraftDelay = fillna0(@),
            !.ArrDelay = fillna0(@)]

\* Line 59: the limit of an on-time arrival, in minutes.
OnTimeLimit == 15

\* Lines 56-58
TotalDelayMinutes(r) ==
  Add(Add(Add(Add(r.CarrierDelay, r.WeatherDelay), r.NASDelay), r.SecurityDelay),
      r.LateAircraftDelay)

\* OnTime with < for <=.
OnTimeStrict(r) == IF ~r.ArrDelay.nan /\ r.ArrDelay.v < OnTimeLimit THEN 1 ELSE 0

\* Line 59: np.where(df['ArrDelay'] <= 15, 1, 0); NaN <= 15 is False.
OnTime(r) == IF ~r.ArrDelay.nan /\ r.ArrDelay.v <= OnTimeLimit THEN 1 ELSE 0

\* Line 61: df['Date'].dt.month, NaN for NaT.
Month(r) == IF r.Date.nat THEN NaN ELSE Num(r.Date.m)

\* Lines 56-61: the derived columns.
Features(r) ==
  [Date |-> r.Date, Airline |-> r.Airline, Origin |-> r.Origin, Dest |-> r.Dest,
   ArrDelay |-> r.ArrDelay, Distance |-> r.Distance,
   CarrierDelay |-> r.CarrierDelay, WeatherDelay |-> r.WeatherDelay,
   NASDelay |-> r.NASDelay, SecurityDelay |-> r.SecurityDelay,
   LateAircraftDelay |-> r.LateAircraftDelay,
   TotalDelayMinutes |-> TotalDelayMinutes(r),
   OnTime |-> OnTime(r),
   Month |-> Month(r)]

\* Lines 36-61 on the whole table: no row is added, dropped or moved.
CleanTable(rows) == [i \in 1..Len(rows) |-> Features(FillNa(Coerce(rows[i])))]

(***************************** anomalies ***********************************)
RECURSIVE Insert(_, _)
Insert(x, s) ==
  IF s = <<>> THEN <<x>>
  ELSE IF x <= Head(s) THEN <<x>> \o s
  ELSE <<Head(s)>> \o Insert(x, Tail(s))

RECURSIVE SortAsc(_)
SortAsc(s) == IF s = <<>> THEN <<>> ELSE Insert(Head(s), SortAsc(Tail(s)))

\* The ArrDelay column of a cleaned table (no NaN is left in it after FillNa).
ArrDelays(table) == [i \in 1..Len(table) |-> table[i].ArrDelay.v]

\* The quantile without interpolation: the lower of the two ranks.
Quantile4Lower(vals, k) ==
  IF vals = <<>> THEN NaN
  ELSE Num(4 * SortAsc(vals)[((k * (Len(vals) - 1)) \div 4) + 1])

\* Series.quantile(k/4), pandas' default interpolation='linear': at the
\* position k*(n-1)/4 of the sorted values, between the two ranks around it.
\* The result is the quantile times 4; NaN for an empty column.
Quantile4(vals, k) ==
  IF vals = <<>> THEN NaN
  ELSE LET sorted == SortAsc(vals)
           pos == k * (Len(vals) - 1)
           lo == pos \div 4
           frac == pos % 4
           hi == IF frac = 0 THEN lo ELSE lo + 1
       IN Num(sorted[lo + 1] * (4 - frac) + sorted[hi + 1] * frac)

\* The quartiles taken over the filtered table instead.
QuantileInputFiltered(table, view) == view

\* Line 64: the quartiles are those of df['ArrDelay'], the whole cleaned
\* table, not of the filtered one.
QuantileInput(table, view) == table

\* Lines 64-66: upper_limit = q3 + 1.5 * (q3 - q1), kept times 8.
UpperLimit8(table) ==
  LET q1 == Quantile4(ArrDelays(table), 1)
      q3 == Quantile4(ArrDelays(table), 3)
  IN IF q1.nan \/ q3.nan THEN NaN
     ELSE Num(2 * q3.v + 3 * (q3.v - q1.v))

\* ArrDelay > upper_limit; a comparison with NaN is False.
Exceeds(x, limit8) == ~x.nan /\ ~limit8.nan /\ 8 * x.v > limit8.v

\* Line 67
Anomalies(table, limit8) == SelectSeq(table, LAMBDA r : Exceeds(r.ArrDelay, limit8))

(***************************** the sidebar *********************************)
RECURSIVE MinDate(_)
\* df['Date'].min(): NaT rows are skipped, NaT when there is no other.
MinDate(table) ==
  IF table = <<>> THEN NaT
  ELSE LET rest == MinDate(Tail(table))
           x == Head(table).Date
       IN IF x.nat THEN rest
          ELSE IF rest.nat THEN x
          ELSE IF DateLE(x, rest) THEN x ELSE rest

RECURSIVE MaxDate(_)
\* df['Date'].max()
MaxDate(table) ==
  IF table = <<>> THEN NaT
  ELSE LET rest == MaxDate(Tail(table))
           x == Head(table).Date
       IN IF x.nat THEN rest
          ELSE IF rest.nat THEN x
          ELSE IF DateLE(rest, x) THEN x ELSE rest

\* What the user did with the date widget: nothing, or picked `value` (one
\* date while the range is half chosen, two when it is complete).
Untouched == [touched |-> FALSE, value |-> <<>>]
Picked(value) == [touched |-> TRUE, value |-> value]

\* Line 91: st.sidebar.date_input("Rentang tanggal", [min_date, max_date])
\* returns its default until the user picks.
DateInput(pick, min_date, max_date) ==
  IF pick.touched THEN pick.value ELSE <<min_date, max_date>>

\* Lines 92-94: the options of a multiselect, df[col].unique().
Unique(table, col) == {table[i][col] : i \in 1..Len(table)}

(***************************** the filter **********************************)
\* DateFilter with the end of the range left out (< for <=).
DateFilterOpenEnd(table, date_range) ==
  IF Len(date_range) = 2
  THEN SelectSeq(table, LAMBDA r : DateLE(date_range[1], r.Date)
                                   /\ DateLE(r.Date, date_range[2])
                                   /\ r.Date # date_range[2])
  ELSE table

\* DateFilter that lets the rows without a date through.
DateFilterKeepsNaT(table, date_range) ==
  IF Len(date_range) = 2
  THEN SelectSeq(table, LAMBDA r : \/ r.Date.nat
                                   \/ /\ DateLE(date_range[1], r.Date)
                                      /\ DateLE(r.Date, date_range[2]))
  ELSE table

\* Lines 98-100: pd.to_datetime of a date the widget returned is that day at
\* midnight, which is what the Date column holds.
DateFilter(table, date_range) ==
  IF Len(date_range) = 2
  THEN SelectSeq(table, LAMBDA r : DateLE(date_range[1], r.Date)
                                   /\ DateLE(r.Date, date_range[2]))
  ELSE table

\* Lines 101-106: `if selected: filtered = filtered[filtered[col].isin(selected)]`
IsinFilter(table, col, selected) ==
  IF selected # {} THEN SelectSeq(table, LAMBDA r : r[col] \in selected)
  ELSE table

\* Lines 97-106
Filter(table, date_range, carriers, origin, dest) ==
  IsinFilter(IsinFilter(IsinFilter(DateFilter(table, date_range),
                                   "Airline", carriers),
                        "Origin", origin),
             "Dest", dest)

(***************************** KPIs ****************************************)
RECURSIVE SumSeq(_)
SumSeq(s) == IF s = <<>> THEN 0 ELSE Head(s) + SumSeq(Tail(s))

NaNMean == [nan |-> TRUE, num |-> 0, den |-> 1]

\* A mean that answers 0 when there is nothing to average.
MeanZeroWhenEmpty(vals) ==
  LET defined == SelectSeq(vals, LAMBDA x : ~x.nan)
  IN IF defined = <<>> THEN [nan |-> FALSE, num |-> 0, den |-> 1]
     ELSE [nan |-> FALSE,
           num |-> SumSeq([i \in 1..Len(defined) |-> defined[i].v]),
           den |-> Len(defined)]

\* Series.mean(): NaN values are skipped; the mean of nothing is NaN (pandas
\* returns it, numpy does the division and raises nothing).
Mean(vals) ==
  LET defined == SelectSeq(vals, LAMBDA x : ~x.nan)
  IN IF defined = <<>> THEN NaNMean
     ELSE [nan |-> FALSE,
           num |-> SumSeq([i \in 1..Len(defined) |-> defined[i].v]),
           den |-> Len(defined)]

Column(table, col) == [i \in 1..Len(table) |-> table[i][col]]

\* Line 113
AvgDelay(table) == Mean(Column(table, "ArrDelay"))
\* Line 114: filtered['OnTime'].mean() * 100
PctOnTime(table) ==
  LET m == Mean([i \in 1..Len(table) |-> Num(table[i].OnTime)])
  IN [m EXCEPT !.num = 100 * @]
\* Line 115
AvgDistance(table) == Mean(Column(table, "Distance"))

Pow10(d) == IF d = 0 THEN 1 ELSE IF d = 1 THEN 10 ELSE 100

\* f"{x:.<d>f}": the text "nan" for NaN, else the value rounded to d decimals
\* (kept as the integer value * 10^d; halves are rounded up here).
FormatFixed(x, d) ==
  IF x.nan THEN [text |-> "nan", scaled |-> 0]
  ELSE [text |-> "number",
        scaled |-> (2 * x.num * Pow10(d) + x.den) \div (2 * x.den)]

(***************************** per airline *********************************)
\* The airline codes of the model, in ascending (lexicographic) order.
AirlineNames == <<"AA", "UA">>

NameRank(a) == CHOOSE i \in 1..Len(AirlineNames) : AirlineNames[i] = a

\* filtered.groupby('Airline')['ArrDelay'].mean().reset_index(): one row per
\* airline of the table, the groups in ascending order of the key.
GroupByAirlineMean(table) ==
  LET keys == SelectSeq(AirlineNames, LAMBDA a : a \in Unique(table, "Airline"))
  IN [i \in 1..Len(keys) |->
        [Airline |-> keys[i],
         ArrDelay |-> Mean(Column(SelectSeq(table, LAMBDA r : r.Airline = keys[i]),
                                  "ArrDelay"))]]

MeanGE(a, b) == a.num * b.den >= b.num * a.den

Orderings(n) == {p \in [1..n -> 1..n] : \A i, j \in 1..n : i # j => p[i] # p[j]}

\* .sort_values(by='ArrDelay', ascending=False): the default kind='quicksort'
\* is not a stable sort, so rows of equal mean come out in an order the sort
\* algorithm of the build decides.  Every descending arrangement is an outcome.
SortValuesDesc(groups) ==
  {s \in {[i \in 1..Len(groups) |-> groups[p[i]]] : p \in Orderings(Len(groups))} :
     \A i \in 1..(Len(s) - 1) : MeanGE(s[i].ArrDelay, s[i + 1].ArrDelay)}

(***************************** the page ************************************)
\* What a run puts on the page, in the order of the script.
\* Lines 17-30, before the upload is looked at.
PageHead == <<"title", "intro", "loading_subheader", "file_uploader">>
\* Lines 70-89
DatasetInfo == <<"row_count", "column_count", "head", "cleaned_note",
                 "business_questions", "sidebar_header">>
\* Lines 111-190
Report == <<"kpi_subheader", "total_flights", "avg_delay", "pct_ontime",
            "avg_distance", "airline_bar", "month_line", "delay_pie",
            "route_heatmap", "anomaly_count", "anomaly_table", "insights",
            "download_button">>

\* Everything a run shows that comes from the uploaded table.
UploadOutputs ==
  Range(DatasetInfo) \cup Range(Report)
    \cup {"date_input", "carriers_select", "origin_select", "dest_select"}

\* Where the run of the script ends for a table with the columns `cols`.
\* df['Date'] (line 36) and df[col] (line 43) raise KeyError for a missing
\* column; date_input (line 91) raises ValueError when its default is NaT,
\* pandas' NaT having no date(); df['Airline'], df['Origin'], df['Dest']
\* (lines 92-94) raise KeyError.
RunEnd(cols, min_date) ==
  IF ~(({"Date"} \cup Range(numeric_cols)) \subseteq cols) THEN "coerce"
  ELSE IF min_date.nat THEN "date_input"
  ELSE IF "Airline" \notin cols THEN "carriers_select"
  ELSE IF "Origin" \notin cols THEN "origin_select"
  ELSE IF "Dest" \notin cols THEN "dest_select"
  ELSE "done"

\* What is on the page when the run ends there; an uncaught exception is
\* shown on the page by the framework.
Page(end) ==
  PageHead \o
  CASE end = "no_file" -> <<"upload_warning">>
    [] end = "coerce" -> <<"exception">>
    [] end = "date_input" -> DatasetInfo \o <<"exception">>
    [] end = "carriers_select" -> DatasetInfo \o <<"date_input", "exception">>
    [] end = "origin_select" ->
         DatasetInfo \o <<"date_input", "carriers_select", "exception">>
    [] end = "dest_select" ->
         DatasetInfo \o <<"date_input", "carriers_select", "origin_select",
                          "exception">>
    [] end = "done" ->
         DatasetInfo \o <<"date_input", "carriers_select", "origin_select",
                          "dest_select">> \o Report

ErrorAt(end) ==
  IF end \in {"coerce", "carriers_select", "origin_select", "dest_select"}
  THEN "KeyError"
  ELSE IF end = "date_input" THEN "ValueError" ELSE "none"

(***************************** state ***************************************)
VARIABLES
  uploaded_file,      \* <<>> (None) or <<[cols, rows]>>: the uploaded CSV
  date_pick,          \* what the user did with the date widget
  selected_carriers,  \* the three multiselects
  selected_origin,
  selected_dest,
  run,                \* what the last run of the script computed and showed
  avg_delay_airline   \* the per-airline table of the last run

inputs == <<uploaded_file, date_pick, selected_carriers, selected_origin,
            selected_dest>>
vars == <<inputs, run, avg_delay_airline>>

\* The script's variables before a run reaches their assignment.
Unset ==
  [df |-> <<>>, upper_limit |-> NaN, anomalies |-> <<>>, date_range |-> <<>>,
   filtered |-> <<>>, avg_delay |-> NaNMean, pct_ontime |-> NaNMean,
   avg_distance |-> NaNMean, metrics |-> <<>>, groups |-> <<>>,
   emitted |-> Page("no_file"), error |-> "none"]

\* Lines 32-67 and 70-89: the cleaned table, the anomaly limit (times 8) and
\* the anomalies.
Loaded(table, view) ==
  LET limit == UpperLimit8(QuantileInput(table, view))
  IN [Unset EXCEPT !.df = table,
                   !.upper_limit = limit,
                   !.anomalies = Anomalies(table, limit)]

\* Lines 97-132: the filtered table, the KPIs with the four st.metric texts,
\* and the per-airline means before they are sorted.
Reported(loaded, view, range) ==
  [loaded EXCEPT !.date_range = range,
                 !.filtered = view,
                 !.avg_delay = AvgDelay(view),
                 !.pct_ontime = PctOnTime(view),
                 !.avg_distance = AvgDistance(view),
                 !.metrics = <<[text |-> "number", scaled |-> Len(view)],
                               FormatFixed(AvgDelay(view), 2),
                               FormatFixed(PctOnTime(view), 2),
                               FormatFixed(AvgDistance(view), 0)>>,
                 !.groups = GroupByAirlineMean(view)]

\* One run of the script, top to bottom, on the given upload and widget
\* values (lines 17-193): the values of the script's variables when the run
\* ends, the page it produced and the exception that ended it, if any.
Run(file, pick, carriers, origin, dest) ==
  IF file = <<>> THEN Unset
  ELSE
    LET table == CleanTable(file[1].rows)
        min_date == MinDate(table)
        max_date == MaxDate(table)
        end == RunEnd(file[1].cols, min_date)
        range == DateInput(pick, min_date, max_date)
        view == Filter(table, range, carriers, origin, dest)
        result ==
          IF end = "coerce" THEN Unset
          ELSE IF end = "done" THEN Reported(Loaded(table, view), view, range)
          ELSE Loaded(table, view)
    IN [result EXCEPT !.emitted = Page(end), !.error = ErrorAt(end)]

\* The rerun as a step: sort_values picks the order of the per-airline table.
Script(file, pick, carriers, origin, dest) ==
  /\ run' = Run(file, pick, carriers, origin, dest)
  /\ avg_delay_airline' \in SortValuesDesc(run'.groups)

Init ==
  /\ uploaded_file = <<>>
  /\ date_pick = Untouched
  /\ selected_carriers = {}
  /\ selected_origin = {}
  /\ selected_dest = {}
  /\ run = Unset
  /\ avg_delay_airline = <<>>

Shown(widget) == widget \in Range(run.emitted)

\* The user uploads a file of `pool`: the widgets of the new table start at
\* their defaults and the script runs.
UploadFrom(pool) ==
  /\ uploaded_file = <<>>
  /\ \E f \in pool :
       /\ uploaded_file' = <<f>>
       /\ date_pick' = Untouched
       /\ selected_carriers' = {}
       /\ selected_origin' = {}
       /\ selected_dest' = {}
       /\ Script(<<f>>, Untouched, {}, {}, {})

\* The user removes the file: the run shows the prompt and no widget, and
\* the framework forgets the values of widgets a run does not show.
RemoveFile ==
  /\ uploaded_file # <<>>
  /\ uploaded_file' = <<>>
  /\ date_pick' = Untouched
  /\ selected_carriers' = {}
  /\ selected_origin' = {}
  /\ selected_dest' = {}
  /\ Script(<<>>, Untouched, {}, {}, {})

\* The dates the user picks in the date widget.
PickDates == {Timestamp(2019, 1, 15), Timestamp(2019, 2, 1)}

\* A single date (the range half chosen) or a range, start <= end.
DateChoices ==
  {<<a>> : a \in PickDates}
    \cup {r \in {<<a, b>> : a \in PickDates, b \in PickDates} : DateLE(r[1], r[2])}

\* Each change of a widget reruns the script with the new value.
SetDateRange ==
  /\ Shown("date_input")
  /\ \E v \in DateChoices :
       /\ Picked(v) # date_pick
       /\ date_pick' = Picked(v)
       /\ Script(uploaded_file, Picked(v), selected_carriers, selected_origin,
                 selected_dest)
  /\ UNCHANGED <<uploaded_file, selected_carriers, selected_origin, selected_dest>>

SetCarriers ==
  /\ Shown("carriers_select")
  /\ \E S \in SUBSET Unique(run.df, "Airline") :
       /\ S # selected_carriers
       /\ selected_carriers' = S
       /\ Script(uploaded_file, date_pick, S, selected_origin, selected_dest)
  /\ UNCHANGED <<uploaded_file, date_pick, selected_origin, selected_dest>>

SetOrigin ==
  /\ Shown("origin_select")
  /\ \E S \in SUBSET Unique(run.df, "Origin") :
       /\ S # selected_origin
       /\ selected_origin' = S
       /\ Script(uploaded_file, date_pick, selected_carriers, S, selected_dest)
  /\ UNCHANGED <<uploaded_file, date_pick, selected_carriers, selected_dest>>

SetDest ==
  /\ Shown("dest_select")
  /\ \E S \in SUBSET Unique(run.df, "Dest") :
       /\ S # selected_dest
       /\ selected_dest' = S
       /\ Script(uploaded_file, date_pick, selected_carriers, selected_origin, S)
  /\ UNCHANGED <<uploaded_file, date_pick, selected_carriers, selected_origin>>

(***************************** uploads *************************************)
RawRow(date, airline, origin, dest, arr, dist, delays) ==
  [Date |-> date, Airline |-> airline, Origin |-> origin, Dest |-> dest,
   ArrDelay |-> arr, Distance |-> dist,
   CarrierDelay |-> delays[1], WeatherDelay |-> delays[2], NASDelay |-> delays[3],
   SecurityDelay |-> delays[4], LateAircraftDelay |-> delays[5]]

NoDelays == [i \in 1..5 |-> IntCell(0)]

\* "15-01-2019", "01-02-2019", and "01-15-2019": a date written month first,
\* which is no date under %d-%m-%Y.
Jan15 == DashCell(15, 1, 2019)
Feb01 == DashCell(1, 2, 2019)
MonthFirst == DashCell(1, 15, 2019)

Tables(rows, n) == UNION {[1..k -> rows] : k \in 0..n}

CsvFiles(rows, n) == {[cols |-> AllColumns, rows |-> t] : t \in Tables(rows, n)}

\* The flights of the filter study: one flight and five others that differ
\* from it in the date, the airline, the origin or the destination.
FilterRows ==
  { RawRow(Jan15, "AA", "JFK", "LAX", IntCell(20), IntCell(500), NoDelays),
    RawRow(Feb01, "AA", "JFK", "LAX", IntCell(5), IntCell(500), NoDelays),
    RawRow(MonthFirst, "AA", "JFK", "LAX", IntCell(60), IntCell(500), NoDelays),
    RawRow(Jan15, "UA", "JFK", "LAX", IntCell(20), EmptyCell, NoDelays),
    RawRow(Jan15, "AA", "LAX", "LAX", IntCell(30), IntCell(0), NoDelays),
    RawRow(Jan15, "AA", "JFK", "JFK", IntCell(-5), IntCell(0), NoDelays) }

Upload == UploadFrom(CsvFiles(FilterRows, MaxRows))

Next ==
  \/ Upload
  \/ RemoveFile
  \/ SetDateRange
  \/ SetCarriers
  \/ SetOrigin
  \/ SetDest

Spec == Init /\ [][Next]_vars

(***************************** the filter study ***************************)
\* The last run went through the whole script on an uploaded table.
Done == uploaded_file # <<>> /\ run.error = "none"

\* Days since a fixed origin in a calendar of 31-day months: the order of
\* two dates is the order of these numbers.
Ordinal(t) == (t.y * 12 + t.m) * 31 + t.d

\* A row passes every predicate that is active, as the filter is specified.
Passes(r) ==
  /\ Len(run.date_range) = 2 =>
       /\ ~r.Date.nat
       /\ Ordinal(run.date_range[1]) <= Ordinal(r.Date)
       /\ Ordinal(r.Date) <= Ordinal(run.date_range[2])
  /\ selected_carriers # {} => r.Airline \in selected_carriers
  /\ selected_origin # {} => r.Origin \in selected_origin
  /\ selected_dest # {} => r.Dest \in selected_dest

\* C1: the filtered table is exactly the rows of the cleaned table, in their
\* order, that pass every active predicate: the date within [start, end]
\* inclusive when the date widget gives a range, the airline, the origin and
\* the destination each in its selected set when that set is non-empty.
C1_FilterIsExactSubsequence ==
  Done =>
    /\ date_pick.touched => run.date_range = date_pick.value
    /\ run.filtered = SelectSeq(run.df, Passes)

\* All four predicates are active; a row is kept and a row is dropped.
C1_Witness ==
  /\ Done
  /\ date_pick.touched
  /\ Len(run.date_range) = 2
  /\ selected_carriers # {}
  /\ selected_origin # {}
  /\ selected_dest # {}
  /\ Len(run.filtered) >= 1
  /\ Len(run.filtered) < Len(run.df)

\* C2: with nothing selected by the user (no airline, origin or destination,
\* the date widget untouched), the filtered table is the cleaned table, the
\* same rows in the same order.
C2_UntouchedFilterIsIdentity ==
  ( /\ Done
    /\ ~date_pick.touched
    /\ selected_carriers = {}
    /\ selected_origin = {}
    /\ selected_dest = {} )
  => run.filtered = run.df

\* C3: while the same file stays uploaded, no change of a filter widget
\* changes the anomaly limit.
C3_LimitUnchangedByFilters ==
  [][(uploaded_file' = uploaded_file /\ uploaded_file # <<>>)
       => run'.upper_limit = run.upper_limit]_vars

\* A filter has removed rows from a table that has a limit.
C3_Witness ==
  /\ Done
  /\ selected_carriers # {}
  /\ date_pick.touched
  /\ ~run.upper_limit.nan
  /\ Len(run.filtered) < Len(run.df)

\* C7: when the filters leave no row, the run still goes to its end, the
\* three mean KPIs are not-a-number and shown as "nan", never as a number,
\* and the per-airline table is empty.
C7_EmptyResultShowsNoData ==
  (Done /\ run.filtered = <<>>) =>
    /\ run.avg_delay.nan
    /\ run.pct_ontime.nan
    /\ run.avg_distance.nan
    /\ \A i \in 2..4 : run.metrics[i].text = "nan"
    /\ avg_delay_airline = <<>>
    /\ run.emitted = Page("done")

\* A filter combination that leaves no row of a table that has rows.
C7_Witness ==
  /\ Done
  /\ run.df # <<>>
  /\ run.filtered = <<>>

C10_NoDateRowsExcluded ==
  Done =>
    /\ Len(run.df) = Len(uploaded_file[1].rows)
    /\ run.upper_limit = UpperLimit8(run.df)
    /\ Len(run.date_range) = 2 =>
         \A i \in 1..Len(run.filtered) : ~run.filtered[i].Date.nat

\* A range is chosen on a table with a row that has no date, and rows remain.
C10_Witness ==
  /\ Done
  /\ date_pick.touched
  /\ Len(run.date_range) = 2
  /\ \E i \in 1..Len(run.df) : run.df[i].Date.nat
  /\ run.filtered # <<>>

(***************************** the quantile study *************************)
\* Tables that differ in the arrival delays only, in any order.
DelayValues == {5, 10, 12, 15, 90}

DelayRows ==
  {RawRow(Jan15, "AA", "JFK", "LAX", IntCell(x), IntCell(500), NoDelays) :
     x \in DelayValues}

UploadDelays == UploadFrom(CsvFiles(DelayRows, MaxDelays))

NextAnomaly ==
  \/ UploadDelays
  \/ RemoveFile
  \/ SetCarriers

SpecAnomaly == Init /\ [][NextAnomaly]_vars

\* The j-th smallest of the values, by counting.
Kth(vals, j) ==
  CHOOSE v \in Range(vals) :
    /\ Cardinality({i \in 1..Len(vals) : vals[i] < v}) < j
    /\ j <= Cardinality({i \in 1..Len(vals) : vals[i] <= v})

\* Four times the k-th quartile by linear interpolation between the closest
\* ranks: the position k*(n-1)/4, counted from 0, lies between two ranks.
Quartile4(vals, k) ==
  LET lo == (k * (Len(vals) - 1)) \div 4
      frac == (k * (Len(vals) - 1)) % 4
  IN IF frac = 0 THEN 4 * Kth(vals, lo + 1)
     ELSE 4 * Kth(vals, lo + 1) + frac * (Kth(vals, lo + 2) - Kth(vals, lo + 1))

\* Eight times Q3 + 1.5 * (Q3 - Q1).
IqrLimit8(vals) == 2 * Quartile4(vals, 3) + 3 * (Quartile4(vals, 3) - Quartile4(vals, 1))

\* C4: the limit is Q3 + 1.5*(Q3 - Q1) with the quartiles of the arrival
\* delays of the whole cleaned table by linear interpolation, the anomalies
\* are exactly the rows with a delay strictly above it, in their order; for
\* the delays 5, 10, 12, 15, 90 that is Q1 = 10, Q3 = 15, a limit of 22.5 and
\* the one anomaly 90.
C4_IqrRule ==
  Done =>
    LET vals == [i \in 1..Len(run.df) |-> run.df[i].ArrDelay.v]
    IN /\ run.upper_limit = Num(IqrLimit8(vals))
       /\ run.anomalies =
            SelectSeq(run.df, LAMBDA r : 8 * r.ArrDelay.v > IqrLimit8(vals))
       /\ vals = <<5, 10, 12, 15, 90>> =>
            /\ Quartile4(vals, 1) = 40
            /\ Quartile4(vals, 3) = 60
            /\ run.upper_limit = Num(180)
            /\ Len(run.anomalies) = 1
            /\ run.anomalies[1].ArrDelay = Num(90)

\* The table of the example has been uploaded and its anomaly found.
C4_Witness ==
  /\ Done
  /\ [i \in 1..Len(run.df) |-> run.df[i].ArrDelay.v] = <<5, 10, 12, 15, 90>>
  /\ Len(run.anomalies) = 1

(***************************** the derived columns ************************)
\* Flights that differ in the six cells the cleaning fills: a number, an
\* empty cell or text that is no number.
EnrichDelays ==
  {<<c, w, n, x, l>> :
     c \in {IntCell(1), EmptyCell}, w \in {IntCell(2), TextCell},
     n \in {IntCell(4), EmptyCell}, x \in {IntCell(8), TextCell},
     l \in {IntCell(16), EmptyCell}}

EnrichRows ==
  {RawRow(Jan15, "AA", "JFK", "LAX", a, IntCell(500), d) :
     a \in {IntCell(15), IntCell(16), EmptyCell, TextCell}, d \in EnrichDelays}

UploadEnrich == UploadFrom(CsvFiles(EnrichRows, MaxFlights))

NextEnrich ==
  \/ UploadEnrich
  \/ RemoveFile
  \/ SetCarriers

SpecEnrich == Init /\ [][NextEnrich]_vars

\* The number a cell of the upload stands for, 0 when it holds none.
CellOrZero(c) == IF c.kind = "int" THEN c.val ELSE 0

\* C5: for every row, TotalDelayMinutes is the sum of the five delay cells
\* of the uploaded row, a missing or unparseable cell counting as 0; it is
\* never NaN.
C5_TotalIsSumOfComponents ==
  Done =>
    /\ Len(run.df) = Len(uploaded_file[1].rows)
    /\ \A i \in 1..Len(run.df) :
         LET raw == uploaded_file[1].rows[i]
         IN run.df[i].TotalDelayMinutes =
              Num(CellOrZero(raw.CarrierDelay) + CellOrZero(raw.WeatherDelay)
                  + CellOrZero(raw.NASDelay) + CellOrZero(raw.SecurityDelay)
                  + CellOrZero(raw.LateAircraftDelay))

\* A row with none of the five components has a total of 0.
C5_Witness ==
  /\ Done
  /\ \E i \in 1..Len(run.df) :
       LET raw == uploaded_file[1].rows[i]
       IN /\ raw.CarrierDelay.kind # "int"
          /\ raw.WeatherDelay.kind # "int"
          /\ raw.NASDelay.kind # "int"
          /\ raw.SecurityDelay.kind # "int"
          /\ raw.LateAircraftDelay.kind # "int"
          /\ run.df[i].TotalDelayMinutes = Num(0)

\* C6: for every row, OnTime is 1 exactly when the arrival delay, 0 for a
\* missing or unparseable cell, is at most 15.
C6_OnTimeIffAtMost15 ==
  Done =>
    /\ Len(run.df) = Len(uploaded_file[1].rows)
    /\ \A i \in 1..Len(run.df) :
         /\ run.df[i].OnTime \in {0, 1}
         /\ run.df[i].OnTime = 1 <=> CellOrZero(uploaded_file[1].rows[i].ArrDelay) <= 15

\* A flight that arrived exactly 15 minutes late is on time.
C6_Witness ==
  /\ Done
  /\ \E i \in 1..Len(run.df) :
       /\ uploaded_file[1].rows[i].ArrDelay = IntCell(15)
       /\ run.df[i].OnTime = 1

(***************************** the schema study ***************************)
SchemaRows ==
  { RawRow(Jan15, "AA", "JFK", "LAX", IntCell(20), IntCell(500), NoDelays),
    RawRow(Feb01, "UA", "LAX", "JFK", IntCell(5), IntCell(300), NoDelays) }

\* A row of a table without the columns `missing`: it has no such cell.
WithoutColumns(r, missing) ==
  [f \in DOMAIN r |->
     IF f \notin missing THEN r[f]
     ELSE IF f = "Date" THEN EmptyDate
     ELSE IF f \in {"Airline", "Origin", "Dest"} THEN ""
     ELSE EmptyCell]

\* The uploads with all the columns or with one of them missing.
SchemaFiles ==
  {[cols |-> AllColumns \ missing,
    rows |-> [i \in 1..Len(t) |-> WithoutColumns(t[i], missing)]] :
     missing \in {{}} \cup {{c} : c \in AllColumns},
     t \in Tables(SchemaRows, MaxRows)}

UploadSchema == UploadFrom(SchemaFiles)

NextSchema ==
  \/ UploadSchema
  \/ RemoveFile
  \/ SetDateRange
  \/ SetCarriers
  \/ SetOrigin
  \/ SetDest

SpecSchema == Init /\ [][NextSchema]_vars

\* C8: when a run ends in the error of a missing column, the page shows the
\* error and nothing made from the upload: no dataset statistics, widget,
\* KPI, chart, anomaly listing or download.
C8_NoPartialOutput ==
  run.error = "KeyError" =>
    /\ "exception" \in Range(run.emitted)
    /\ Range(run.emitted) \cap UploadOutputs = {}

====
